---- MODULE Spec2Model ----
(***************************************************************************)
(* fetch-in-chunks (src/index.js): chunked, bounded-parallel download.     *)
(*                                                                         *)
(* src/index.js holds two variants of fetchInChunks:                       *)
(*   "stream" (lines 1-135)   fetchChunk reads the body piece by piece and *)
(*                            reports every piece through onChunkProgress; *)
(*   "buffer" (lines 137-231) fetchChunk awaits response.arrayBuffer() and *)
(*                            progress is reported in the then-handler.    *)
(*                                                                         *)
(* Scheduling: JavaScript is run-to-completion.  The driver (processQueue) *)
(* is suspended only at `await Promise.race(queue)` and at                 *)
(* `await Promise.all(queue)`.  A host event (a response, a body piece, an *)
(* abort issued from outside) is a task of its own, and the continuation   *)
(* of the driver is a microtask that runs before the next task; so host    *)
(* events are guarded by DriverIdle.  The progress callback is user code   *)
(* that runs inside a handler and may itself call controller.abort().      *)
(***************************************************************************)
EXTENDS Integers, Sequences, FiniteSets, TLC

\* ---------------------------------------------------------------- bounds
MaxFileSize == 3
MaxChunkSize == 2
MaxParallel == 2

\* chunkSize = 5 * 1024 * 1024 (arrayBuffer variant default)
DefaultChunkSize == 5242880

Variants == {"stream", "buffer"}

\* response.status values the transport may deliver for a ranged request:
\* 206 (range honoured), 200 (whole resource), another 2xx and a 4xx
Statuses == {200, 203, 206, 404}

\* response.ok: the status is in the range 200-299
ResponseOk(s) == s >= 200 /\ s <= 299

\* the statuses that pass `if (!response.ok && response.status !== 206)`
\* (line 26 / 162) without a throw
OkStatuses == {s \in Statuses : ~(~ResponseOk(s) /\ s # 206)}

VARIABLES
  variant,              \* which fetchInChunks of src/index.js runs
  fileSize,             \* the resource's length (Content-Length)
  chunkSizeOpt,         \* options.chunkSize; 0 = not provided
  chunkSize,            \* the chunk size downloadChunks is called with
  maxParallelRequests,  \* options.maxParallelRequests
  pc,                   \* where the driver is: probe, loop, race, all, done
  outcome,              \* how the promise of fetchInChunks settled
  start,                \* the cursor `start` of processQueue
  queue,                \* `queue`: ids of the promises not yet filtered out
  chunks,               \* `chunks`: records {start, id} pushed on completion
  downloadedBytes,      \* `downloadedBytes`
  reqs,                 \* one record per fetchChunk call, in call order
  aborted,              \* signal.aborted
  raced,                \* settlement of the pending Promise.race, or "none"
  reported,             \* downloadedBytes passed to the last progressCallback call
  nonDecreasing,        \* history: no progressCallback call went below the one before
  returned,             \* ids of the buffers downloadChunks returned, in order
  firstErr,             \* history: the first error any fetchChunk threw
  cancelInFlight,       \* history: abort() was called while a fetch was in flight
  admitAfterCancel,     \* history: fetchChunk was called after abort()
  lateProgress,         \* history: progressCallback ran after the operation failed
  probe,                \* how the HEAD request of getFileSize ended, or "pending"
  admitAfterFailure     \* history: fetchChunk was called after a fetch in flight failed

vars == <<variant, fileSize, chunkSizeOpt, chunkSize, maxParallelRequests, pc,
          outcome, start, queue, chunks, downloadedBytes, reqs, aborted, raced,
          reported, nonDecreasing, returned, firstErr, cancelInFlight, admitAfterCancel,
          lateProgress, probe, admitAfterFailure>>

\* ------------------------------------------------------------- helpers
Min(a, b) == IF a < b THEN a ELSE b

\* mutant of Ceil: Math.floor in place of Math.ceil
CeilAsFloor(a, b) == IF b = 0 THEN a ELSE a \div b

\* Math.ceil(a / b) for a >= 0, b >= 0.  For b = 0 JavaScript yields
\* Infinity (NaN for 0 / 0); as a chunk size every value >= a gives the
\* ranges Infinity gives, and a stands for it
Ceil(a, b) == IF b = 0 THEN a ELSE (a + b - 1) \div b

InFlightSt(s) == s \in {"pending", "reading"}

\* ids of the fetchChunk calls started and not yet settled
InFlight(rs) == {i \in DOMAIN rs : InFlightSt(rs[i].st)}

\* mutant of RangeEnd: the end is not clamped to the last byte
RangeEndUnclamped(s, cs, fs) == s + cs - 1

\* Range end of the chunk that begins at s (line 85 / 184)
RangeEnd(s, cs, fs) == Min(s + cs - 1, fs - 1)

\* number of bytes the response to request r carries: the requested range
\* for 206, the whole resource for a status that ignores the Range header
BodyLen(r, fs) == IF r.status = 206 THEN r.end - r.start + 1 ELSE fs

\* mutant of RejectedIn: the catch handler swallows the error instead of
\* rethrowing it, so no promise of the queue is ever rejected
RejectedInSwallowed(q, rs) == <<>>

\* the promises of `queue` that are rejected, in queue order: the catch
\* handler rethrows (95-97 / 196-198) and a rejected promise is never
\* filtered out of the queue
RejectedIn(q, rs) == SelectSeq(q, LAMBDA i : rs[i].st = "rejected")

\* mutant of FilterOut: the comparison never matches, nothing is removed
FilterOutNothing(q, k) == q

\* queue = queue.filter((p) => p !== promise)
FilterOut(q, k) == SelectSeq(q, LAMBDA i : i # k)

\* mutant of AbortFetches: the signal is not handed to fetch()
AbortFetchesNoSignal(rs) == rs

\* Abort of the shared signal: every fetch still in flight rejects with
\* AbortError (fetch(url, {signal}) at lines 22-25 / 158-161).
AbortFetches(rs) ==
  [i \in DOMAIN rs |->
     IF InFlightSt(rs[i].st)
     THEN [rs[i] EXCEPT !.st = "rejected", !.err = "AbortError"]
     ELSE rs[i]]

\* chunks.sort((a, b) => a.start - b.start): Array.prototype.sort is stable
RECURSIVE InsertByStart(_, _)
InsertByStart(x, s) ==
  IF s = <<>> THEN <<x>>
  ELSE IF x.start < Head(s).start THEN <<x>> \o s
  ELSE <<Head(s)>> \o InsertByStart(x, Tail(s))

RECURSIVE SortByStart(_)
SortByStart(s) ==
  IF s = <<>> THEN <<>>
  ELSE InsertByStart(s[Len(s)], SortByStart(SubSeq(s, 1, Len(s) - 1)))

\* the driver is suspended and nothing it awaits has settled: host tasks run
DriverIdle ==
  \/ pc = "done"
  \/ pc = "race" /\ raced = "none"
  \/ pc = "all" /\ queue # <<>> /\ RejectedIn(queue, reqs) = <<>>

\* what an event that settles the awaited race does to `raced`
RaceSettle(r) == IF pc = "race" /\ raced = "none" THEN r ELSE raced

\* ---------------------------------------------------------------- Init
Init ==
  /\ variant \in Variants
  /\ fileSize \in 0..MaxFileSize
  /\ chunkSizeOpt \in 0..MaxChunkSize
  /\ maxParallelRequests \in 0..MaxParallel
  /\ chunkSize = 0
  /\ pc = "probe"
  /\ outcome = "none"
  /\ start = 0
  /\ queue = <<>>
  /\ chunks = <<>>
  /\ downloadedBytes = 0
  /\ reqs = <<>>
  /\ aborted = FALSE
  /\ raced = "none"
  /\ reported = 0
  /\ nonDecreasing = TRUE
  /\ returned = <<>>
  /\ firstErr = "none"
  /\ cancelInFlight = FALSE
  /\ admitAfterCancel = FALSE
  /\ lateProgress = FALSE
  /\ probe = "pending"
  /\ admitAfterFailure = FALSE


\* ------------------------------------------------- getFileSize (9-19)
\* the two ways the HEAD response makes getFileSize throw
ProbeFailures == {"not_ok", "no_length"}

\* chunk size handed to downloadChunks: the stream variant derives it when
\* it is not provided (118-120), the buffer variant defaults it (139)
EffectiveChunkSize ==
  IF chunkSizeOpt # 0 THEN chunkSizeOpt
  ELSE IF variant = "stream" THEN Ceil(fileSize, maxParallelRequests)
  ELSE DefaultChunkSize

\* HEAD succeeded and Content-Length is present
getFileSizeOk ==
  /\ pc = "probe" /\ ~aborted
  /\ probe' = "ok"
  /\ chunkSize' = EffectiveChunkSize
  /\ pc' = "loop"
  /\ UNCHANGED <<variant, fileSize, chunkSizeOpt, maxParallelRequests, outcome,
                 start, queue, chunks, downloadedBytes, reqs, aborted, raced,
                 reported, nonDecreasing, returned, firstErr, cancelInFlight,
                 admitAfterCancel, lateProgress,
                 admitAfterFailure>>

\* mutant of getFileSizeFail: the checks of lines 11-17 are missing and the
\* download goes on with the length it parsed
getFileSizeFailIgnored(why) ==
  /\ pc = "probe" /\ ~aborted
  /\ why \in ProbeFailures
  /\ probe' = why
  /\ chunkSize' = EffectiveChunkSize
  /\ pc' = "loop"
  /\ UNCHANGED <<variant, fileSize, chunkSizeOpt, maxParallelRequests, outcome,
                 start, queue, chunks, downloadedBytes, reqs, aborted, raced,
                 reported, nonDecreasing, returned, firstErr, cancelInFlight,
                 admitAfterCancel, lateProgress, admitAfterFailure>>

\* !response.ok ("not_ok"), or no Content-Length header ("no_length"):
\* getFileSize throws (11-17) and fetchInChunks rejects at line 115
getFileSizeFail(why) ==
  /\ pc = "probe" /\ ~aborted
  /\ why \in ProbeFailures
  /\ probe' = why
  /\ pc' = "done"
  /\ outcome' = "SizeProbeError"
  /\ UNCHANGED <<variant, fileSize, chunkSizeOpt, chunkSize,
                 maxParallelRequests, start, queue, chunks, downloadedBytes,
                 reqs, aborted, raced, reported, nonDecreasing, returned, firstErr,
                 cancelInFlight, admitAfterCancel, lateProgress,
                 admitAfterFailure>>

\* the HEAD request was aborted through the signal
getFileSizeAbort ==
  /\ pc = "probe" /\ aborted
  /\ probe' = "aborted"
  /\ pc' = "done"
  /\ outcome' = "AbortError"
  /\ UNCHANGED <<variant, fileSize, chunkSizeOpt, chunkSize,
                 maxParallelRequests, start, queue, chunks, downloadedBytes,
                 reqs, aborted, raced, reported, nonDecreasing, returned, firstErr,
                 cancelInFlight, admitAfterCancel, lateProgress,
                 admitAfterFailure>>

\* ------------------------------------------------ processQueue (81-109)
\* the request record of a fetchChunk call made now: fetch() with a signal
\* that is already aborted rejects at once
NewReq(s, e) ==
  [start |-> s, end |-> e, status |-> 0, recv |-> 0,
   st |-> IF aborted THEN "rejected" ELSE "pending",
   err |-> IF aborted THEN "AbortError" ELSE "none"]

\* mutant of WindowLimit: downloadChunks is handed a limit that is one too big
WindowLimitOffByOne == maxParallelRequests + 1

\* the maxParallelRequests parameter of downloadChunks (65, 126), which both
\* tests of processQueue compare queue.length with
WindowLimit == maxParallelRequests

\* queue.length < maxParallelRequests (line 84 / 183)
HasCapacity(q) == Len(q) < WindowLimit

\* queue.length >= maxParallelRequests (line 103 / 202)
WindowFull(q) == Len(q) >= WindowLimit

\* mutant of NextStart: the cursor skips a byte between two ranges
NextStartSkip(s) == s + chunkSize + 1

\* start += chunkSize (line 100 / 200)
NextStart(s) == s + chunkSize

\* settlement of Promise.race(q) at the moment it is called
RaceAtCall(q, rs) ==
  IF RejectedIn(q, rs) # <<>> THEN rs[Head(RejectedIn(q, rs))].err ELSE "none"

\* one iteration of `while (start < fileSize)`, up to its await; when the
\* loop condition fails the driver goes on to Promise.all
processQueueIter ==
  /\ pc = "loop"
  /\ IF start < fileSize
     THEN LET admit == HasCapacity(queue)
              id == Len(reqs) + 1
              rs == IF admit
                    THEN Append(reqs, NewReq(start, RangeEnd(start, chunkSize, fileSize)))
                    ELSE reqs
              q == IF admit THEN Append(queue, id) ELSE queue
          IN /\ reqs' = rs
             /\ queue' = q
             /\ start' = IF admit THEN NextStart(start) ELSE start
             /\ admitAfterCancel' = (admitAfterCancel \/ (admit /\ aborted))
             /\ admitAfterFailure' =
                  (admitAfterFailure \/ (admit /\ RejectedIn(queue, reqs) # <<>>))
             /\ firstErr' = IF admit /\ aborted /\ firstErr = "none"
                            THEN "AbortError" ELSE firstErr
             /\ IF WindowFull(q)
                THEN pc' = "race" /\ raced' = RaceAtCall(q, rs)
                ELSE pc' = "loop" /\ raced' = raced
     ELSE /\ pc' = "all"
          /\ UNCHANGED <<reqs, queue, start, admitAfterCancel, admitAfterFailure,
                         firstErr, raced>>
  /\ UNCHANGED <<variant, fileSize, chunkSizeOpt, chunkSize,
                 maxParallelRequests, outcome, chunks, downloadedBytes,
                 aborted, reported, nonDecreasing, returned, cancelInFlight, lateProgress,
                 probe>>

\* await Promise.race(queue) settles (line 104 / 203)
processQueueRace ==
  /\ pc = "race" /\ raced # "none"
  /\ IF raced = "ok"
     THEN pc' = "loop" /\ outcome' = outcome
     ELSE pc' = "done" /\ outcome' = raced
  /\ raced' = "none"
  /\ UNCHANGED <<variant, fileSize, chunkSizeOpt, chunkSize,
                 maxParallelRequests, start, queue, chunks, downloadedBytes,
                 reqs, aborted, reported, nonDecreasing, returned, firstErr,
                 cancelInFlight, admitAfterCancel, lateProgress,
                 probe, admitAfterFailure>>

\* mutant of processQueueAll: the final `await Promise.all(queue)` is
\* missing and downloadChunks returns what was collected so far
processQueueAllNoAwait ==
  /\ pc = "all"
  /\ outcome' = "blob"
  /\ returned' = [i \in 1..Len(chunks) |-> SortByStart(chunks)[i].id]
  /\ pc' = "done"
  /\ UNCHANGED <<variant, fileSize, chunkSizeOpt, chunkSize,
                 maxParallelRequests, start, queue, chunks, downloadedBytes,
                 reqs, aborted, raced, reported, nonDecreasing, firstErr,
                 cancelInFlight, admitAfterCancel, lateProgress, probe,
                 admitAfterFailure>>

\* await Promise.all(queue) settles (line 108 / 207); on success
\* downloadChunks returns the sorted buffers (112 / 212) and fetchInChunks
\* wraps them in a Blob (131 / 226)
processQueueAll ==
  /\ pc = "all"
  /\ \/ /\ RejectedIn(queue, reqs) # <<>>
        /\ outcome' = reqs[Head(RejectedIn(queue, reqs))].err
        /\ returned' = returned
     \/ /\ queue = <<>>
        /\ outcome' = "blob"
        /\ returned' = [i \in 1..Len(chunks) |-> SortByStart(chunks)[i].id]
  /\ pc' = "done"
  /\ UNCHANGED <<variant, fileSize, chunkSizeOpt, chunkSize,
                 maxParallelRequests, start, queue, chunks, downloadedBytes,
                 reqs, aborted, raced, reported, nonDecreasing, firstErr, cancelInFlight,
                 admitAfterCancel, lateProgress,
                 probe, admitAfterFailure>>


\* --------------------------------------------- fetchChunk and handlers
\* the start pushed with a chunk by the then-handler: the stream variant
\* pushes the preserved `actualStart` (87, 91); the buffer variant pushes
\* `start`, the cursor of downloadChunks, read when the handler runs (187)
PushedStart(k) == IF variant = "stream" THEN reqs[k].start ELSE start

\* mutant of Report: the piece is not reported (fetchChunk is called without
\* its onProgress argument)
ReportDropped(n) ==
  UNCHANGED <<downloadedBytes, reported, nonDecreasing, lateProgress>>

\* progressCallback(downloadedBytes, fileSize) after n more bytes (74-77 /
\* 188-192)
Report(n) ==
  /\ downloadedBytes' = downloadedBytes + n
  /\ reported' = downloadedBytes + n
  /\ nonDecreasing' = (nonDecreasing /\ reported <= downloadedBytes + n)
  /\ lateProgress' = (lateProgress \/ outcome \notin {"none", "blob"})

\* controller.abort() called from inside the progress callback, with rs the
\* requests as the handler left them
CallbackAbort(cb, rs) ==
  /\ aborted' = (aborted \/ cb)
  /\ reqs' = IF cb THEN AbortFetches(rs) ELSE rs
  /\ cancelInFlight' =
       (cancelInFlight \/ (cb /\ outcome = "none" /\ InFlight(rs) # {}))
  /\ firstErr' = IF cb /\ InFlight(rs) # {} /\ firstErr = "none"
                 THEN "AbortError" ELSE firstErr

\* buffer variant: the response arrives with an accepted status, its
\* arrayBuffer() resolves and the then-handler runs (162-165, 186-195)
fetchChunkResolve(k, status, cb) ==
  /\ variant = "buffer" /\ DriverIdle
  /\ k \in DOMAIN reqs /\ reqs[k].st = "pending"
  /\ cb => ~aborted
  /\ LET r == [reqs[k] EXCEPT !.st = "fulfilled", !.status = status]
         r2 == [r EXCEPT !.recv = BodyLen(r, fileSize)]
     IN /\ chunks' = Append(chunks, [start |-> PushedStart(k), id |-> k])
        /\ Report(r2.recv)
        /\ CallbackAbort(cb, [reqs EXCEPT ![k] = r2])
  /\ queue' = FilterOut(queue, k)
  /\ raced' = RaceSettle("ok")
  /\ UNCHANGED <<variant, fileSize, chunkSizeOpt, chunkSize,
                 maxParallelRequests, pc, outcome, start, returned,
                 admitAfterCancel,
                 probe, admitAfterFailure>>

\* the request fails: the response has a status s that is neither ok nor
\* 206 (26-28 / 162-164), or (s = 0) a network error occurs while the
\* response or its body is awaited
fetchChunkReject(k, s) ==
  /\ DriverIdle
  /\ k \in DOMAIN reqs /\ InFlightSt(reqs[k].st)
  /\ s \in {0} \cup (Statuses \ OkStatuses)
  /\ s # 0 => reqs[k].st = "pending"
  /\ reqs' = [reqs EXCEPT ![k].st = "rejected", ![k].err = "ChunkFetchError",
                          ![k].status = IF s # 0 THEN s ELSE @]
  /\ firstErr' = IF firstErr = "none" THEN "ChunkFetchError" ELSE firstErr
  /\ raced' = RaceSettle("ChunkFetchError")
  /\ UNCHANGED <<variant, fileSize, chunkSizeOpt, chunkSize,
                 maxParallelRequests, pc, outcome, start, queue, chunks,
                 downloadedBytes, aborted, reported, nonDecreasing, returned,
                 cancelInFlight, admitAfterCancel, lateProgress,
                 probe, admitAfterFailure>>

\* stream variant: the response arrives with an accepted status and the
\* reader is obtained (22-36)
fetchChunkRespond(k, status) ==
  /\ variant = "stream" /\ DriverIdle
  /\ k \in DOMAIN reqs /\ reqs[k].st = "pending"
  /\ reqs' = [reqs EXCEPT ![k].st = "reading", ![k].status = status]
  /\ UNCHANGED <<variant, fileSize, chunkSizeOpt, chunkSize,
                 maxParallelRequests, pc, outcome, start, queue, chunks,
                 downloadedBytes, aborted, raced, reported, nonDecreasing, returned,
                 firstErr, cancelInFlight, admitAfterCancel, lateProgress,
                 probe, admitAfterFailure>>

\* stream variant: reader.read() delivers a piece of n bytes, which is
\* reported through onChunkProgress (39-47, 73-78)
fetchChunkRead(k, n, cb) ==
  /\ variant = "stream" /\ DriverIdle
  /\ k \in DOMAIN reqs /\ reqs[k].st = "reading"
  /\ n >= 1 /\ reqs[k].recv + n <= BodyLen(reqs[k], fileSize)
  /\ cb => ~aborted
  /\ Report(n)
  /\ CallbackAbort(cb, [reqs EXCEPT ![k].recv = reqs[k].recv + n])
  /\ raced' = IF cb THEN RaceSettle("AbortError") ELSE raced
  /\ UNCHANGED <<variant, fileSize, chunkSizeOpt, chunkSize,
                 maxParallelRequests, pc, outcome, start, queue, chunks,
                 returned, admitAfterCancel,
                 probe, admitAfterFailure>>

\* stream variant: reader.read() reports done, fetchChunk returns the
\* combined buffer and the then-handler runs (40-42, 50-58, 89-94)
fetchChunkDone(k) ==
  /\ variant = "stream" /\ DriverIdle
  /\ k \in DOMAIN reqs /\ reqs[k].st = "reading"
  /\ reqs[k].recv = BodyLen(reqs[k], fileSize)
  /\ reqs' = [reqs EXCEPT ![k].st = "fulfilled"]
  /\ chunks' = Append(chunks, [start |-> PushedStart(k), id |-> k])
  /\ queue' = FilterOut(queue, k)
  /\ raced' = RaceSettle("ok")
  /\ UNCHANGED <<variant, fileSize, chunkSizeOpt, chunkSize,
                 maxParallelRequests, pc, outcome, start, downloadedBytes,
                 aborted, reported, nonDecreasing, returned, firstErr, cancelInFlight,
                 admitAfterCancel, lateProgress,
                 probe, admitAfterFailure>>

\* controller.abort() from outside, while the operation is pending
Cancel ==
  /\ ~aborted /\ outcome = "none"
  /\ pc = "probe" \/ DriverIdle
  /\ aborted' = TRUE
  /\ reqs' = AbortFetches(reqs)
  /\ cancelInFlight' = (cancelInFlight \/ InFlight(reqs) # {})
  /\ firstErr' = IF InFlight(reqs) # {} /\ firstErr = "none"
                 THEN "AbortError" ELSE firstErr
  /\ raced' = IF InFlight(reqs) # {} THEN RaceSettle("AbortError") ELSE raced
  /\ UNCHANGED <<variant, fileSize, chunkSizeOpt, chunkSize,
                 maxParallelRequests, pc, outcome, start, queue, chunks,
                 downloadedBytes, reported, nonDecreasing, returned, admitAfterCancel,
                 lateProgress,
                 probe, admitAfterFailure>>

\* ------------------------------------------------------- specification
Ids == 1..(MaxFileSize + 1)

Next ==
  \/ getFileSizeOk
  \/ \E why \in ProbeFailures : getFileSizeFail(why)
  \/ getFileSizeAbort
  \/ processQueueIter
  \/ processQueueRace
  \/ processQueueAll
  \/ \E k \in Ids, s \in OkStatuses, cb \in BOOLEAN : fetchChunkResolve(k, s, cb)
  \/ \E k \in Ids, s \in {0} \cup Statuses : fetchChunkReject(k, s)
  \/ \E k \in Ids, s \in OkStatuses : fetchChunkRespond(k, s)
  \/ \E k \in Ids, n \in 1..(MaxFileSize + 1), cb \in BOOLEAN : fetchChunkRead(k, n, cb)
  \/ \E k \in Ids : fetchChunkDone(k)
  \/ Cancel

Spec == Init /\ [][Next]_vars

\* the driver's continuation: a microtask, run as soon as it is scheduled
Driver == processQueueIter \/ processQueueRace \/ processQueueAll

\* the HEAD request of getFileSize settles
ProbeSettles ==
  \/ getFileSizeOk
  \/ \E why \in ProbeFailures : getFileSizeFail(why)
  \/ getFileSizeAbort

\* the transport makes progress on the range fetch k: every fetch that was
\* started eventually settles
FetchSettles(k) ==
  \/ \E s \in OkStatuses, cb \in BOOLEAN : fetchChunkResolve(k, s, cb)
  \/ \E s \in {0} \cup Statuses : fetchChunkReject(k, s)
  \/ \E s \in OkStatuses : fetchChunkRespond(k, s)
  \/ \E n \in 1..(MaxFileSize + 1), cb \in BOOLEAN : fetchChunkRead(k, n, cb)
  \/ fetchChunkDone(k)

FairSpec ==
  /\ Spec
  /\ WF_vars(Driver)
  /\ WF_vars(ProbeSettles)
  /\ \A k \in Ids : WF_vars(FetchSettles(k))

\* the scenario totalBytes=10, chunkSize=4, maxParallelRequests=2
InitScenario ==
  /\ variant \in Variants
  /\ fileSize = 10
  /\ chunkSizeOpt = 4
  /\ maxParallelRequests = 2
  /\ chunkSize = 0
  /\ pc = "probe"
  /\ outcome = "none"
  /\ start = 0
  /\ queue = <<>>
  /\ chunks = <<>>
  /\ downloadedBytes = 0
  /\ reqs = <<>>
  /\ aborted = FALSE
  /\ raced = "none"
  /\ reported = 0
  /\ nonDecreasing = TRUE
  /\ returned = <<>>
  /\ firstErr = "none"
  /\ cancelInFlight = FALSE
  /\ admitAfterCancel = FALSE
  /\ lateProgress = FALSE
  /\ probe = "pending"
  /\ admitAfterFailure = FALSE

SpecScenario == InitScenario /\ [][Next]_vars

TypeOK ==
  /\ pc \in {"probe", "loop", "race", "all", "done"}
  /\ outcome \in {"none", "blob", "SizeProbeError", "ChunkFetchError", "AbortError"}
  /\ Len(reqs) <= MaxFileSize


\* ================================================================ claims

\* C1: for every successful download and every completion order, the
\* buffers returned by downloadChunks are in ascending range-start order:
\* the i-th buffer is the one fetched for the i-th range, in both variants.
C1_ReturnedInRangeOrder ==
  outcome = "blob" => \A i \in 1..Len(returned) : returned[i] = i

\* C2: in every reachable state the number of range fetches started and not
\* yet settled is at most maxParallelRequests.
C2_WindowBounded == Cardinality(InFlight(reqs)) <= maxParallelRequests

\* the window is full again after a fetch has been retired from it
C2_Witness ==
  /\ Cardinality(InFlight(reqs)) = maxParallelRequests
  /\ Len(reqs) > maxParallelRequests
  /\ chunks # <<>>

\* C3: over a run that completes successfully the generated ranges
\* partition [0, fileSize): the first start is 0, each next start is the
\* previous end + 1, every end is < fileSize, the last end is fileSize - 1.
C3_RangesPartition ==
  outcome = "blob" =>
    /\ (fileSize = 0) <=> (reqs = <<>>)
    /\ reqs # <<>> =>
         /\ reqs[1].start = 0
         /\ reqs[Len(reqs)].end = fileSize - 1
    /\ \A i \in DOMAIN reqs :
         /\ reqs[i].start <= reqs[i].end
         /\ reqs[i].end < fileSize
         /\ i < Len(reqs) => reqs[i + 1].start = reqs[i].end + 1

\* a successful run whose last range is shorter than chunkSize
C3_Witness ==
  /\ outcome = "blob"
  /\ Len(reqs) >= 2
  /\ reqs[Len(reqs)].end - reqs[Len(reqs)].start + 1 < chunkSize

\* C4: if the token is triggered while a range fetch is in flight and the
\* operation has not settled, the operation settles with AbortError, never
\* with a result and never with a chunk-fetch failure.
C4_CancelSettlesWithAbort ==
  (cancelInFlight /\ pc = "done") => outcome = "AbortError"

\* cancelled with a fetch in flight after another chunk had completed
C4_Witness ==
  /\ cancelInFlight
  /\ outcome = "AbortError"
  /\ chunks # <<>>

\* C5: after the token has been triggered no further range is admitted,
\* i.e. fetchChunk is not called after the cancel event.
C5_NoAdmissionAfterCancel == ~admitAfterCancel


\* C6: fail-fast, no partial result.  Once a range fetch has failed and the
\* driver is waiting on the window, the only step left to the operation is
\* to settle with that first error, whatever is still in flight; the
\* collected chunks are returned only with a complete, successful outcome;
\* and the outcome, once set, is final.
C6_FailFastNoPartialResult ==
  [][ /\ ( /\ pc \in {"race", "all"} /\ outcome = "none"
           /\ firstErr # "none" /\ raced # "ok" )
         => (pc' = "done" /\ outcome' = firstErr)
      /\ outcome' \notin {"none", "blob"} => returned' = <<>>
      /\ outcome' = "blob" =>
           /\ Len(returned') = Len(reqs')
           /\ \A i \in DOMAIN reqs' : reqs'[i].st = "fulfilled"
      /\ outcome # "none" => outcome' = outcome
    ]_vars

\* failed while a sibling was still in flight, with chunks already collected
C6_Witness ==
  /\ outcome = "ChunkFetchError"
  /\ InFlight(reqs) # {}
  /\ chunks # <<>>
  /\ returned = <<>>

\* C7: when a range fetch fails with a chunk-fetch error every sibling
\* still in flight is cancelled: once the operation has failed no sibling
\* is outstanding and none triggers a further progress callback.
C7_SiblingsCancelledOnFailure ==
  outcome = "ChunkFetchError" => (InFlight(reqs) = {} /\ ~lateProgress)

RECURSIVE SumRecv(_, _)
\* bytes received over the requests ids (a sequence of ids) of rs
SumRecv(ids, rs) ==
  IF ids = <<>> THEN 0 ELSE rs[Head(ids)].recv + SumRecv(Tail(ids), rs)

\* bytes received so far across all chunks
ReceivedSoFar == SumRecv([i \in 1..Len(reqs) |-> i], reqs)

\* size of new Blob(chunks): the buffers returned by downloadChunks
BlobLength == SumRecv(returned, reqs)

\* C8: for every successful download the values passed to progressCallback
\* are non-decreasing, equal the bytes received so far across all chunks,
\* and the last one equals fileSize.
C8_ProgressReachesTotal ==
  outcome = "blob" =>
    /\ nonDecreasing
    /\ reported = ReceivedSoFar
    /\ reported = fileSize

\* C9: downloadedBytes never exceeds fileSize, for every response fetchChunk
\* accepts, a 200 carrying the whole resource included.
C9_DownloadedWithinTotal == downloadedBytes <= fileSize

\* C10: the operation resolves successfully only with a byte sequence whose
\* length equals fileSize; a length mismatch is a reassembly error.
C10_ResultLengthIsTotal == outcome = "blob" => BlobLength = fileSize

\* C11: no ranged request is issued before the size probe has succeeded; if
\* the HEAD request fails or Content-Length is missing the operation fails
\* with a size-probe error and no ranged request was issued.
C11_NoRangeBeforeProbe ==
  /\ probe # "ok" => reqs = <<>>
  /\ probe \in ProbeFailures => (pc = "done" /\ outcome = "SizeProbeError")

\* the HEAD response carried no Content-Length and the operation failed
C11_Witness ==
  /\ probe = "no_length"
  /\ outcome = "SizeProbeError"
  /\ reqs = <<>>

\* C12: a range fetch succeeds for exactly two response statuses, 206 and
\* 200; with any other status, other 2xx statuses included, the range fetch
\* fails with a chunk-fetch error and so does the operation.
C12_OnlyPartialOrFullAccepted ==
  \A i \in DOMAIN reqs :
    reqs[i].status \notin {0, 200, 206} =>
      /\ reqs[i].st = "rejected"
      /\ outcome # "blob"

\* every range request was answered with 206, i.e. the range was honoured
AllHonoured == \A i \in DOMAIN reqs : reqs[i].status \in {0, 206}

AdmittedContiguous ==
  /\ reqs # <<>> => reqs[1].start = 0
  /\ \A i \in DOMAIN reqs :
       /\ reqs[i].start <= reqs[i].end
       /\ i < Len(reqs) => reqs[i + 1].start = reqs[i].end + 1

\* C14 as stated: in every reachable state, failed and cancelled runs
\* included, the ranges admitted so far are contiguous from 0 in increasing
\* order and partition [0, cursor), cursor being the next unscheduled start.
C14_PartitionUpToCursor ==
  /\ AdmittedContiguous
  /\ reqs = <<>> => start = 0
  /\ reqs # <<>> => reqs[Len(reqs)].end + 1 = start

\* C14 amended: the admitted ranges partition [0, min(cursor, fileSize)):
\* the last range is clamped to the resource, the cursor is not.
C14_PartitionUpToClampedCursor ==
  /\ AdmittedContiguous
  /\ reqs = <<>> => start = 0
  /\ reqs # <<>> => reqs[Len(reqs)].end + 1 = Min(start, fileSize)

\* a failed run whose cursor has run past the end of the resource
C14_Witness ==
  /\ Len(reqs) >= 2
  /\ start > fileSize
  /\ outcome = "ChunkFetchError"

\* C15: after an in-flight range fetch has failed the scheduler admits no
\* further range, in every interleaving: no fetchChunk call follows the
\* rejection of a fetch that was in flight.
C15_NoAdmissionAfterFailure == ~admitAfterFailure

\* C19: whenever the driver is suspended on Promise.race, with none of the
\* raced promises settled, the window is not empty, for every fileSize > 0
\* and every maxParallelRequests >= 0.
C19_RaceOnNonEmptyWindow ==
  (pc = "race" /\ raced = "none") => InFlight(reqs) # {}

\* C16: for fileSize >= 0, chunkSize >= 1 and maxParallelRequests >= 1, if
\* every started fetch eventually settles the scheduler never stalls: it
\* waits only on a full window, every turn of the loop with a range left
\* admits it, every range is eventually admitted unless an error comes
\* first, and the operation eventually settles.
C16_NeverStalls ==
  /\ []((maxParallelRequests >= 1 /\ pc = "race" /\ raced = "none")
          => ~HasCapacity(queue))
  /\ [][(maxParallelRequests >= 1 /\ pc = "loop" /\ start < fileSize)
          => Len(reqs') = Len(reqs) + 1]_vars
  /\ <>(\/ maxParallelRequests = 0
        \/ start >= fileSize
        \/ outcome \notin {"none", "blob"})
  /\ <>(maxParallelRequests = 0 \/ pc = "done")

\* a download of more ranges than the window holds that settled with a Blob
C16_Witness ==
  /\ outcome = "blob"
  /\ maxParallelRequests >= 1
  /\ Len(reqs) > maxParallelRequests

\* C17: when the scheduler completes successfully `chunks` holds exactly
\* one result for each generated range, none missing and none twice, and
\* the in-flight window is empty, whatever the completion order.
C17_OneResultPerRange ==
  outcome = "blob" =>
    /\ InFlight(reqs) = {}
    /\ queue = <<>>
    /\ Len(chunks) = Len(reqs)
    /\ \A k \in DOMAIN reqs :
         Cardinality({i \in DOMAIN chunks : chunks[i].id = k}) = 1

\* a successful download whose chunks completed out of range order
C17_Witness ==
  /\ outcome = "blob"
  /\ Len(chunks) >= 2
  /\ chunks[1].id # 1

\* the ids of the requests whose result has been pushed to `chunks`
RecordedIds == [i \in 1..Len(chunks) |-> chunks[i].id]

\* C18: in the streaming variant every received increment is reported
\* (onChunkProgress, hence progressCallback with the new total) before the
\* chunk's result is recorded and the range retired: every byte received is
\* already counted, a recorded chunk is complete, and the step that records
\* a chunk adds nothing to downloadedBytes.
C18_ReportedBeforeRecorded ==
  /\ [](variant = "stream" =>
          /\ downloadedBytes = ReceivedSoFar
          /\ reported = downloadedBytes
          /\ downloadedBytes >= SumRecv(RecordedIds, reqs)
          /\ \A i \in DOMAIN chunks :
               /\ reqs[chunks[i].id].recv = BodyLen(reqs[chunks[i].id], fileSize)
               /\ reqs[chunks[i].id].recv >= 1)
  /\ [][(variant = "stream" /\ chunks' # chunks)
          => downloadedBytes' = downloadedBytes]_vars

\* a chunk has been recorded while another fetch has received part of its body
C18_Witness ==
  /\ variant = "stream"
  /\ chunks # <<>>
  /\ \E k \in DOMAIN reqs : reqs[k].st = "reading" /\ reqs[k].recv >= 1

====
